---- MODULE Spec2Model ----
(***************************************************************************)
(* Model of the 2D-subspace trust-region subproblem solver                 *)
(* (multifit_nlinear/subspace2D.c) and of the combination iterators        *)
(* (combination/combination.c).                                            *)
(*                                                                         *)
(* Numbers.  A C double is modelled by an extended rational <<n, d>>:      *)
(*   d > 0   the rational n/d in lowest terms,                             *)
(*   <<1,0>> +Inf,  <<-1,0>> -Inf,  <<0,0>> NaN.                           *)
(* Arithmetic is exact (no rounding); division by zero and the invalid     *)
(* operations produce Inf/NaN as IEEE-754 does, and NaN compares false.    *)
(* The problems the model iterates over are chosen so that every Euclidean *)
(* norm taken is rational; RSqrt has no value on any other argument.       *)
(***************************************************************************)
EXTENDS Integers, Sequences, FiniteSets, TLC

----------------------------------------------------------------------------
(* Extended rational arithmetic (the double type)                          *)

Sgn(i) == IF i > 0 THEN 1 ELSE IF i < 0 THEN -1 ELSE 0

Abs(i) == IF i < 0 THEN -i ELSE i

RECURSIVE GCD(_, _)
GCD(a, b) == IF b = 0 THEN a ELSE GCD(b, a % b)

(* num/den with the common factor h taken out *)
Reduce(num, den, h) == <<num \div h, den \div h>>

Q(num, den) ==
  IF den = 0 THEN <<Sgn(num), 0>>
  ELSE Reduce(Sgn(den) * num, Sgn(den) * den, GCD(Abs(num), Abs(den)))

NaN == <<0, 0>>

PInf == <<1, 0>>

NInf == <<-1, 0>>

Zero == <<0, 1>>

One == <<1, 1>>

IsNaN(x) == x = NaN

RNeg(x) == <<-x[1], x[2]>>

RAbs(x) == <<Abs(x[1]), x[2]>>

(* Products and sums cancel common factors first, so that the integers of *)
(* the representation stay small.                                          *)
RMulCancel(x, y, g1, g2) ==
  <<(x[1] \div g1) * (y[1] \div g2), (x[2] \div g2) * (y[2] \div g1)>>

RMul(x, y) ==
  IF x[2] = 0 \/ y[2] = 0 THEN <<Sgn(x[1]) * Sgn(y[1]), 0>>
  ELSE IF x[1] = 0 \/ y[1] = 0 THEN <<0, 1>>
  ELSE RMulCancel(x, y, GCD(Abs(x[1]), y[2]), GCD(Abs(y[1]), x[2]))

RAddReduce(num, den, g) ==
  IF num = 0 THEN <<0, 1>> ELSE Reduce(num, den, GCD(Abs(num), g))

RAddOver(x, y, g) ==
  RAddReduce(x[1] * (y[2] \div g) + y[1] * (x[2] \div g), (x[2] \div g) * y[2], g)

RAdd(x, y) ==
  IF x[2] = 0 /\ y[2] = 0
  THEN IF x = y THEN x ELSE NaN
  ELSE IF x[2] = 0 THEN x
  ELSE IF y[2] = 0 THEN y
  ELSE IF x[1] = 0 THEN y
  ELSE IF y[1] = 0 THEN x
  ELSE RAddOver(x, y, GCD(x[2], y[2]))

RSub(x, y) == RAdd(x, RNeg(y))

RInv(x) == Q(x[2], x[1])

RDiv(x, y) == RMul(x, RInv(y))

RLt(x, y) ==
  /\ ~IsNaN(x)
  /\ ~IsNaN(y)
  /\ x # y
  /\ IF x = NInf \/ y = PInf THEN TRUE
     ELSE IF x = PInf \/ y = NInf THEN FALSE
     ELSE x[1] * y[2] < y[1] * x[2]

RLe(x, y) == ~IsNaN(x) /\ ~IsNaN(y) /\ (x = y \/ RLt(x, y))

RGt(x, y) == RLt(y, x)

RECURSIVE ISqrtIn(_, _, _)
ISqrtIn(i, lo, hi) ==
  IF lo >= hi THEN lo
  ELSE LET mid == (lo + hi + 1) \div 2
       IN  IF mid * mid <= i THEN ISqrtIn(i, mid, hi) ELSE ISqrtIn(i, lo, mid - 1)

ISqrt(i) == ISqrtIn(i, 0, IF i < 46340 THEN i ELSE 46340)

ExactRoot(i) == CHOOSE r \in {ISqrt(i)} : r * r = i

RSqrt(x) ==
  IF IsNaN(x) \/ x = NInf THEN NaN
  ELSE IF x = PInf THEN PInf
  ELSE IF x[1] < 0 THEN NaN
  ELSE <<ExactRoot(x[1]), ExactRoot(x[2])>>

----------------------------------------------------------------------------
(* Vectors are sequences of doubles, matrices sequences of rows            *)

RECURSIVE SumTo(_, _)
SumTo(s, k) == IF k = 0 THEN Zero ELSE RAdd(SumTo(s, k - 1), s[k])

Sum(s) == SumTo(s, Len(s))

Dot(x, y) == Sum([i \in 1..Len(x) |-> RMul(x[i], y[i])])

Nrm2(x) == RSqrt(Dot(x, x))

Scale(x, a) == [i \in 1..Len(x) |-> RMul(x[i], a)]

Col(M, j) == [i \in 1..Len(M) |-> M[i][j]]

MatVec(M, x) == [i \in 1..Len(M) |-> Dot(M[i], x)]

Transpose(M) == [j \in 1..Len(M[1]) |-> Col(M, j)]

----------------------------------------------------------------------------
(* Return codes (gsl_errno.h)                                              *)

GSL_SUCCESS == 0

GSL_EFAILED == 5

GSL_ESING == 21

----------------------------------------------------------------------------
(* Dense kernels the solver calls (gsl_linalg, gsl_blas)                   *)

(* gsl_linalg_householder_transform: on input a vector v, on output the    *)
(* scalar tau and the vector holding beta in its first entry and the       *)
(* Householder vector (with implicit leading 1) below it.                  *)
HouseholderScaled(v, beta) ==
  [tau |-> RDiv(RSub(beta, v[1]), beta),
   v   |-> [i \in 1..Len(v) |-> IF i = 1 THEN beta ELSE RDiv(v[i], RSub(v[1], beta))]]

householder_transform(v) ==
  IF Len(v) = 1 THEN [tau |-> Zero, v |-> v]
  ELSE IF Nrm2(Tail(v)) = Zero THEN [tau |-> Zero, v |-> v]
  ELSE HouseholderScaled(v, RNeg(RMul(IF RLe(Zero, v[1]) THEN One ELSE RNeg(One),
                                      Nrm2(v))))

(* gsl_linalg_householder_hv: w := (I - tau v v^T) w, v[1] taken as 1; d   *)
(* is v^T w                                                                *)
HouseholderUpdate(tau, v, w, d) ==
  [i \in 1..Len(w) |->
     RSub(w[i], RMul(tau, RMul(IF i = 1 THEN One ELSE v[i], d)))]

householder_hv(tau, v, w) ==
  IF tau = Zero THEN w
  ELSE HouseholderUpdate(tau, v, w, Dot(<<One>> \o Tail(v), w))

(* gsl_vector_max_index over the two column norms: the first maximum, or   *)
(* the first NaN.                                                          *)
max_index(n1, n2) ==
  IF IsNaN(n1) THEN 1 ELSE IF IsNaN(n2) THEN 2 ELSE IF RGt(n2, n1) THEN 2 ELSE 1

(* gsl_linalg_QRPT_decomp of a p-by-2 matrix A: column pivoting on the     *)
(* norms, then one Householder reflection per column.  The result is the   *)
(* packed factorization: R on and above the diagonal, the Householder      *)
(* vectors below it, and tau.                                              *)
QRPT_pack(h1, r12, h2) ==
  [QR  |-> [i \in 1..Len(h1.v) |-> <<h1.v[i], (<<r12>> \o h2.v)[i]>>],
   tau |-> <<h1.tau, h2.tau>>]

(* The second reflection, on the trailing part of the updated column b1 *)
QRPT_second(h1, b1) == QRPT_pack(h1, b1[1], householder_transform(Tail(b1)))

(* The first reflection h1 applied to the other column b *)
QRPT_first(h1, b) == QRPT_second(h1, householder_hv(h1.tau, h1.v, b))

(* a is the pivot column, b the other one *)
QRPT_columns(a, b) == QRPT_first(householder_transform(a), b)

QRPT_decomp(A) ==
  IF max_index(Nrm2(Col(A, 1)), Nrm2(Col(A, 2))) = 1
  THEN QRPT_columns(Col(A, 1), Col(A, 2))
  ELSE QRPT_columns(Col(A, 2), Col(A, 1))

(* v with its entries k.. replaced by those of out *)
Splice(v, k, out) == [i \in 1..Len(v) |-> IF i < k THEN v[i] ELSE out[i - k + 1]]

(* Householder vector k of a packed factorization applied to the entries   *)
(* k.. of v                                                                *)
ApplyH(QR, tau, k, v) ==
  Splice(v, k, householder_hv(tau[k],
                              [j \in 1..(Len(QR) - k + 1) |-> QR[j + k - 1][k]],
                              [j \in 1..(Len(v) - k + 1) |-> v[j + k - 1]]))

(* gsl_linalg_QR_QTvec: v := Q^T v = H2 H1 v *)
QR_QTvec(QR, tau, v) == ApplyH(QR, tau, 2, ApplyH(QR, tau, 1, v))

(* gsl_linalg_QR_Qvec: v := Q v = H1 H2 v *)
QR_Qvec(QR, tau, v) == ApplyH(QR, tau, 1, ApplyH(QR, tau, 2, v))

(* gsl_linalg_QR_matQ: A := A Q = A H1 H2, row by row *)
QR_matQ(QR, tau, A) == [i \in 1..Len(A) |-> QR_QTvec(QR, tau, A[i])]

(* Tolerance of the rank decision, relative to the leading diagonal entry  *)
RankTol == <<1, 4096>>

(* qr_nonsing: the ranks the decision can yield for the factor R held in   *)
(* QR.  The trailing diagonal entry is compared with the leading one; the  *)
(* outcome of the comparison on NaN is not fixed by the interface.         *)
qr_nonsing(QR) ==
  LET r11 == RAbs(QR[1][1])
      r22 == RAbs(QR[2][2])
  IN  IF IsNaN(r11) \/ IsNaN(r22) THEN {1, 2}
      ELSE IF RLe(r22, RMul(RankTol, r11)) THEN {1} ELSE {2}

----------------------------------------------------------------------------
(* Trust-state inputs: the problems of the outer iterations                *)

R(i) == <<i, 1>>

(* Number of parameters of every problem; each has as many observations *)
p == 2

JacA == << <<R(-4), R(-3)>>, <<R(-3), R(0)>> >>

JacI == << <<R(1), R(0)>>, <<R(0), R(1)>> >>

JacH == << <<<<1, 2>>, R(0)>>, <<R(0), <<1, 2>>>> >>

JacS == << <<R(1), R(0)>>, <<R(0), R(0)>> >>

JacB == << <<R(-3), R(-2)>>, <<R(0), R(-2)>> >>

(* The table of problems (J, f).  Problems 1, 6 and 7 have non-parallel    *)
(* steepest-descent and Gauss-Newton steps, 2 and 5 have parallel ones,    *)
(* 3 has a zero gradient, 4 has a singular Jacobian.                       *)
ProblemTable ==
  << [J |-> JacA, f |-> <<R(0), R(-4)>>],
     [J |-> JacH, f |-> <<R(0), R(-1)>>],
     [J |-> JacA, f |-> <<R(0), R(0)>>],
     [J |-> JacS, f |-> <<R(-3), R(-4)>>],
     [J |-> JacI, f |-> <<R(-3), R(-4)>>],
     [J |-> JacB, f |-> <<R(-2), R(2)>>],
     [J |-> JacA, f |-> <<R(0), R(-2)>>] >>

NumProblems == 4

(* The gradient the caller stores in the trust state: g = J^T f *)
Gradient(J, f) == MatVec(Transpose(J), f)

TrustState(k) ==
  [f |-> ProblemTable[k].f,
   J |-> ProblemTable[k].J,
   g |-> Gradient(ProblemTable[k].J, ProblemTable[k].f)]

(* The trust-region radii the caller tries *)
DeltaTable ==
  << <<15, 23>>, <<5, 3>>, <<20, 9>>, R(6), <<15, 46>>, <<1, 4>>, <<5, 6>> >>

NumDeltas == 3

Deltas == {DeltaTable[k] : k \in 1..NumDeltas}

----------------------------------------------------------------------------
(* The injected linear solver                                              *)

Det2(M) == RSub(RMul(M[1][1], M[2][2]), RMul(M[1][2], M[2][1]))

(* solve: the Gauss-Newton step, J dx = -f, for a nonsingular 2-by-2 J *)
GaussNewton(J, f) ==
  << RNeg(RDiv(RSub(RMul(J[2][2], f[1]), RMul(J[1][2], f[2])), Det2(J))),
     RNeg(RDiv(RSub(RMul(J[1][1], f[2]), RMul(J[2][1], f[1])), Det2(J))) >>

(* What a solve that fails has left in its output vector when it had       *)
(* started to write it: the negated right-hand side                        *)
PartialSolve(J, f) == Scale(f, RNeg(One))

(* What one preloop call can meet in the solver: the status of each of the *)
(* three entry points (those after a failing one are not called), and      *)
(* whether solve has written its output vector.  The solver fails on a     *)
(* singular Jacobian, at any of its entry points, and only there.          *)
SolverOutcomes(tst) ==
  IF Det2(tst.J) # Zero
  THEN {[init |-> GSL_SUCCESS, presolve |-> GSL_SUCCESS, solve |-> GSL_SUCCESS,
         wrote |-> TRUE]}
  ELSE {[init |-> GSL_EFAILED, presolve |-> GSL_SUCCESS, solve |-> GSL_SUCCESS,
         wrote |-> FALSE],
        [init |-> GSL_SUCCESS, presolve |-> GSL_ESING, solve |-> GSL_SUCCESS,
         wrote |-> FALSE],
        [init |-> GSL_SUCCESS, presolve |-> GSL_SUCCESS, solve |-> GSL_EFAILED,
         wrote |-> FALSE],
        [init |-> GSL_SUCCESS, presolve |-> GSL_SUCCESS, solve |-> GSL_ESING,
         wrote |-> TRUE]}

----------------------------------------------------------------------------
(* subspace2D_state_t and subspace2D_alloc                                 *)

(* What freshly allocated, not yet written memory can hold *)
HeapFills == {Zero, R(9)}

(* An unwritten vector, an unwritten matrix *)
HeapVector(h) == <<RMul(R(3), h), RMul(R(4), h)>>

HeapMatrix(h) == <<HeapVector(h), HeapVector(h)>>

(* The workspace after subspace2D_alloc: the struct comes from calloc, the *)
(* vectors and matrices from allocators that do not clear their block.     *)
(* subB holds the lower triangle, the only part ever written or read; the  *)
(* permutation and the root finder's workspace are scratch within one call *)
(* and are left out.                                                       *)
subspace2D_alloc(h) ==
  [dx_gn   |-> HeapVector(h),
   dx_sd   |-> HeapVector(h),
   norm_gn |-> Zero,
   norm_sd |-> Zero,
   workp   |-> HeapVector(h),
   workn   |-> HeapVector(h),
   W       |-> HeapMatrix(h),
   J       |-> HeapMatrix(h),
   tau     |-> HeapVector(h),
   subg    |-> HeapVector(h),
   subB    |-> << <<h>>, <<h, h>> >>,
   trB     |-> Zero,
   detB    |-> Zero,
   normg   |-> Zero,
   term0   |-> Zero,
   term1   |-> Zero,
   rank    |-> 0]

----------------------------------------------------------------------------
(* subspace2D_preloop                                                      *)

(* The solver calls one preloop makes, in order, given what the solver     *)
(* answers                                                                 *)
SolverCalls(o) ==
  IF o.init # GSL_SUCCESS THEN << <<"init">> >>
  ELSE IF o.presolve # GSL_SUCCESS THEN << <<"init">>, <<"presolve", Zero>> >>
  ELSE << <<"init">>, <<"presolve", Zero>>, <<"solve">> >>

(* A preloop that does not look at the status of presolve *)
SolverResultUnchecked(o) ==
  IF o.init # GSL_SUCCESS THEN o.init ELSE o.solve

(* The status the three solver calls leave in `status` *)
SolverResult(o) ==
  IF o.init # GSL_SUCCESS THEN o.init
  ELSE IF o.presolve # GSL_SUCCESS THEN o.presolve
  ELSE o.solve

Square(u) == RMul(u, u)

(* The steepest descent step: dx_sd = -alpha g, alpha = (|g| / |J g|)^2,   *)
(* with J g left in workn                                                  *)
SteepestDescentAlong(tst, Jg) ==
  [workn |-> Jg,
   dx_sd |-> Scale(tst.g, RNeg(Square(RDiv(Nrm2(tst.g), Nrm2(Jg)))))]

SteepestDescent(tst) == SteepestDescentAlong(tst, MatVec(tst.J, tst.g))

(* W = [ dx_sd, dx_gn ] before the factorization *)
SubspaceColumns(dx_sd, dx_gn) == [i \in 1..p |-> <<dx_sd[i], dx_gn[i]>>]

(* The rank-2 block, from the reduced gradient subg and the lower triangle *)
(* B00, B10, B11 of the reduced Hessian: subg, subB and the derived        *)
(* scalars                                                                 *)
ReducedModel(st, subg, B00, B10, B11) ==
  [st EXCEPT
     !.subg  = subg,
     !.subB  = << <<B00>>, <<B10, B11>> >>,
     !.trB   = RAdd(B00, B11),
     !.detB  = RSub(RMul(B00, B11), RMul(B10, B10)),
     !.normg = Nrm2(subg),
     !.term0 = RAdd(RSub(RMul(RAdd(RMul(B10, B10), RMul(B11, B11)),
                              RMul(subg[1], subg[1])),
                         RMul(RMul(RMul(R(2), B10), RAdd(B00, B11)),
                              RMul(subg[1], subg[2]))),
                    RMul(RAdd(RMul(B00, B00), RMul(B10, B10)), RMul(subg[2], subg[2]))),
     !.term1 = RAdd(RMul(RMul(B11, subg[1]), subg[1]),
                    RMul(subg[2], RSub(RMul(B00, subg[2]),
                                       RMul(RMul(R(2), B10), subg[1])))) ]

(* subg = first two entries of Q^T g (workp), subB = (JQ)^T (JQ) on the    *)
(* first two columns of J Q (state J), lower triangle only                 *)
ProjectedModel(st, workp, JQ) ==
  ReducedModel([st EXCEPT !.workp = workp, !.J = JQ],
               <<workp[1], workp[2]>>,
               Dot(Col(JQ, 1), Col(JQ, 1)),
               Dot(Col(JQ, 2), Col(JQ, 1)),
               Dot(Col(JQ, 2), Col(JQ, 2)))

SubspaceModel(st, tst) ==
  ProjectedModel(st, QR_QTvec(st.W, st.tau, tst.g), QR_matQ(st.W, st.tau, tst.J))

(* An end of preloop that forgets to store the rank *)
PreloopRankStale(st, tst, rk) ==
  IF rk = 2 THEN SubspaceModel(st, tst) ELSE st

(* The end of preloop: the rank stored, and the rank-2 block if it is 2 *)
PreloopRank(st, tst, rk) ==
  IF rk = 2 THEN SubspaceModel([st EXCEPT !.rank = rk], tst)
  ELSE [st EXCEPT !.rank = rk]

(* The factorization stored in W and tau, then every rank it can be given *)
PreloopFactor(st, tst, qr) ==
  {PreloopRank([st EXCEPT !.W = qr.QR, !.tau = qr.tau], tst, rk) :
     rk \in qr_nonsing(qr.QR)}

(* A preloop that stores the two norms the wrong way round *)
PreloopDescentSwapped(st, tst, sd) ==
  PreloopFactor([st EXCEPT !.workn   = sd.workn,
                           !.dx_sd   = sd.dx_sd,
                           !.norm_gn = Nrm2(sd.dx_sd),
                           !.norm_sd = Nrm2(st.dx_gn)],
                tst,
                QRPT_decomp(SubspaceColumns(sd.dx_sd, st.dx_gn)))

(* The steepest descent step and the two norms stored, then W factored *)
PreloopDescent(st, tst, sd) ==
  PreloopFactor([st EXCEPT !.workn   = sd.workn,
                           !.dx_sd   = sd.dx_sd,
                           !.norm_gn = Nrm2(st.dx_gn),
                           !.norm_sd = Nrm2(sd.dx_sd)],
                tst,
                QRPT_decomp(SubspaceColumns(sd.dx_sd, st.dx_gn)))

(* The part of preloop after the solver calls: every workspace it can leave *)
PreloopCompute(st, tst) == PreloopDescent(st, tst, SteepestDescent(tst))

(* The workspace once the solver calls are over: solve has written dx_gn   *)
(* unless an earlier call failed or it failed before writing               *)
AfterSolver(st, tst, o) ==
  IF ~o.wrote THEN st
  ELSE IF o.solve = GSL_SUCCESS THEN [st EXCEPT !.dx_gn = GaussNewton(tst.J, tst.f)]
  ELSE [st EXCEPT !.dx_gn = PartialSolve(tst.J, tst.f)]

(* subspace2D_preloop: every (status returned, workspace left) the call    *)
(* can end with when the solver answers o                                  *)
subspace2D_preloop(st, tst, o) ==
  IF SolverResult(o) # GSL_SUCCESS
  THEN {[status |-> SolverResult(o), state |-> AfterSolver(st, tst, o)]}
  ELSE {[status |-> GSL_SUCCESS, state |-> s] :
          s \in PreloopCompute(AfterSolver(st, tst, o), tst)}

----------------------------------------------------------------------------
(* The quartic root finder (gsl_poly_complex_solve)                        *)

(* Imaginary parts are held in multiples of the machine epsilon, so that   *)
(* GSL_DBL_EPSILON is one unit.                                            *)
GSL_DBL_EPSILON == One

(* a[0] + a[1] x + ... + a[4] x^4, with a[k] held at index k + 1 *)
PolyEval(a, x) ==
  RAdd(a[1], RMul(x, RAdd(a[2], RMul(x, RAdd(a[3], RMul(x, RAdd(a[4], RMul(x, a[5]))))))))

(* The rationals among which the model looks for real roots *)
LambdaCands == {R(7), R(-25), <<-189, 5>>, R(2), <<-63, 5>>, R(0), R(-1)}

RationalRoots(a) == {l \in LambdaCands : PolyEval(a, l) = Zero}

(* A slot of z[] that holds no real root: its imaginary part is not below  *)
(* epsilon in magnitude.  Slot k stands for z[2k-2], z[2k-1].              *)
ComplexSlot(k) == IF k % 2 = 1 THEN <<Zero, GSL_DBL_EPSILON>> ELSE <<Zero, R(-2)>>

(* The root arrays a successful call can return for coefficients a: some   *)
(* of the exact real roots, each once and with imaginary part zero, in any *)
(* order, in the trailing slots; every slot before them holds a value with *)
(* a non-negligible imaginary part.                                        *)
RootOrders(roots) ==
  {<<>>} \cup {<<r>> : r \in roots}
    \cup {o \in roots \X roots : o[1] # o[2]}

RootArrays(a) ==
  LET place(o) ==
        [k \in 1..4 |->
           IF k > 4 - Len(o) THEN <<o[k - (4 - Len(o))], Zero>> ELSE ComplexSlot(k)]
  IN  {place(o) : o \in RootOrders(RationalRoots(a))}

PolyErrors == {GSL_EFAILED}

(* Everything a call of the root finder on coefficients a can answer; the  *)
(* model follows the call only where it can represent a real root of a     *)
PolyAnswers(a) ==
  IF RationalRoots(a) = {} THEN {}
  ELSE {[status |-> GSL_SUCCESS, z |-> z] : z \in RootArrays(a)}
         \cup {[status |-> e, z |-> [k \in 1..4 |-> ComplexSlot(k)]] : e \in PolyErrors}

----------------------------------------------------------------------------
(* subspace2D_solution, subspace2D_objective                               *)

(* C = B + lambda*I, built from the lower triangle of subB *)
ShiftedB(lambda, st) ==
  << <<RAdd(st.subB[1][1], lambda), st.subB[2][1]>>,
     <<st.subB[2][1], RAdd(st.subB[2][2], lambda)>> >>

(* gsl_linalg_QRPT_decomp + gsl_linalg_QRPT_solve on a 2-by-2 system C y = b: *)
(* the exact solution, by the adjugate; a singular C divides by zero.      *)
Cramer(C, b, det) ==
  << RDiv(RSub(RMul(C[2][2], b[1]), RMul(C[1][2], b[2])), det),
     RDiv(RSub(RMul(C[1][1], b[2]), RMul(C[2][1], b[1])), det) >>

QRPT_solve(C, b) == Cramer(C, b, Det2(C))

(* solve 2D subspace problem: (B + lambda*I) x = -g *)
subspace2D_solution(lambda, st) ==
  Scale(QRPT_solve(ShiftedB(lambda, st), st.subg), RNeg(One))

(* gsl_blas_dsymv(CblasLower, alpha, A, x, 0, y): y = alpha*A*x, A read    *)
(* from its lower triangle                                                 *)
dsymv_lower(alpha, A, x) ==
  << RMul(alpha, RAdd(RMul(A[1][1], x[1]), RMul(A[2][1], x[2]))),
     RMul(alpha, RAdd(RMul(A[2][1], x[1]), RMul(A[2][2], x[2]))) >>

(* evaluate 2D objective function: f(x) = g^T x + 1/2 x^T B x *)
subspace2D_objective(x, st) ==
  RAdd(Dot(st.subg, x), Dot(x, dsymv_lower(<<1, 2>>, st.subB, x)))

----------------------------------------------------------------------------
(* subspace2D_step                                                         *)

(* A branch test that sends norm_gn = delta past branch 1 *)
StepBranchStrict(st, delta) ==
  IF RLt(st.norm_gn, delta) THEN 1
  ELSE IF st.rank < 2 THEN 2
  ELSE 3

(* A branch test that does not look at the rank *)
StepBranchNoRank(st, delta) ==
  IF RLe(st.norm_gn, delta) THEN 1 ELSE 3

(* The branch step takes: 1 Gauss-Newton, 2 rank-deficient, 3 full 2D *)
StepBranch(st, delta) ==
  IF RLe(st.norm_gn, delta) THEN 1
  ELSE IF st.rank < 2 THEN 2
  ELSE 3

(* Coefficients that are twice what they should be: a[4] = 2 *)
QuarticCoefficientsDoubled(st, delta) ==
  << RMul(R(2), RSub(RMul(st.detB, st.detB), RDiv(st.term0, RMul(delta, delta)))),
     RMul(R(2), RSub(RMul(RMul(R(2), st.detB), st.trB),
                     RDiv(RMul(R(2), st.term1), RMul(delta, delta)))),
     RMul(R(2), RSub(RAdd(RMul(st.trB, st.trB), RMul(R(2), st.detB)),
                     Square(RDiv(st.normg, delta)))),
     RMul(R(4), st.trB),
     R(2) >>

(* The coefficients a[0..4] of the quartic in the Lagrange multiplier *)
QuarticCoefficients(st, delta) ==
  LET delta_sq == RMul(delta, delta)
      u        == RDiv(st.normg, delta)
      two      == R(2)
  IN  << RSub(RMul(st.detB, st.detB), RDiv(st.term0, delta_sq)),
         RSub(RMul(RMul(two, st.detB), st.trB), RDiv(RMul(two, st.term1), delta_sq)),
         RSub(RAdd(RMul(st.trB, st.trB), RMul(two, st.detB)), RMul(u, u)),
         RMul(two, st.trB),
         One >>

(* A test that forgets the absolute value *)
IsRealRootSigned(zi) == RLt(zi[2], GSL_DBL_EPSILON)

(* The test that takes root i for real *)
IsRealRoot(zi) == RLt(RAbs(zi[2]), GSL_DBL_EPSILON)

(* The loop over the four roots, from root i (1..4) on, with the running   *)
(* minimum: mini is the 0-based index of the best real root so far, or -1 *)
RECURSIVE RootLoop(_, _, _, _, _)

(* Root i is a candidate of objective value cost *)
RootCandidate(z, st, i, mini, min, cost) ==
  IF mini < 0 \/ RLt(cost, min)
  THEN RootLoop(z, st, i + 1, i - 1, cost)
  ELSE RootLoop(z, st, i + 1, mini, min)

RootLoop(z, st, i, mini, min) ==
  IF i > 4 THEN [mini |-> mini, min |-> min]
  ELSE IF IsRealRoot(z[i])
       THEN RootCandidate(z, st, i, mini, min,
                          subspace2D_objective(subspace2D_solution(z[i][1], st), st))
       ELSE RootLoop(z, st, i + 1, mini, min)

(* The index (0-based, -1 for none) of the root step selects *)
SelectRoot(z, st) == RootLoop(z, st, 1, -1, Zero).mini

(* dx = W * x : x in the first two entries of a zeroed dx, then Q applied *)
Reconstruct(st, x) ==
  QR_Qvec(st.W, st.tau, [i \in 1..p |-> IF i <= 2 THEN x[i] ELSE Zero])

(* The step of branch 1 *)
GaussNewtonStep(st) == st.dx_gn

(* A branch 2 that forgets to normalise dx_sd *)
BoundaryDescentUnscaled(st, delta) == Scale(st.dx_sd, delta)

(* The step of branch 2 *)
BoundaryDescentStep(st, delta) == Scale(st.dx_sd, RDiv(delta, st.norm_sd))

(* The fields of the workspace each branch reads *)
StepReads(st, delta, ans) ==
  LET b == StepBranch(st, delta)
  IN  IF b = 1 THEN {"norm_gn", "dx_gn"}
      ELSE IF b = 2 THEN {"norm_gn", "rank", "dx_sd", "norm_sd"}
      ELSE {"norm_gn", "rank", "normg", "detB", "trB", "term0", "term1"}
             \cup (IF ans.status = GSL_SUCCESS /\ \E i \in 1..4 : IsRealRoot(ans.z[i])
                   THEN {"subB", "subg", "W", "tau"} ELSE {})

(* An end of branch 3 that zeroes dx before it looks at mini *)
StepSelectedZeroed(st, dx, z, mini) ==
  IF mini < 0
  THEN [status |-> GSL_SUCCESS, dx |-> <<Zero, Zero>>, state |-> st, poly |-> TRUE,
        mini |-> mini, diag |-> TRUE]
  ELSE [status |-> GSL_SUCCESS,
        dx     |-> Reconstruct(st, subspace2D_solution(z[mini + 1][1], st)),
        state  |-> st,
        poly   |-> TRUE,
        mini   |-> mini,
        diag   |-> FALSE]

(* The end of branch 3, with mini the root selected: no real root prints   *)
(* the diagnostic (diag) and leaves dx as it is                            *)
StepSelected(st, dx, z, mini) ==
  IF mini < 0
  THEN [status |-> GSL_SUCCESS, dx |-> dx, state |-> st, poly |-> TRUE, mini |-> mini,
        diag |-> TRUE]
  ELSE [status |-> GSL_SUCCESS,
        dx     |-> Reconstruct(st, subspace2D_solution(z[mini + 1][1], st)),
        state  |-> st,
        poly   |-> TRUE,
        mini   |-> mini,
        diag   |-> FALSE]

(* A step that does not look at the status of the root finder *)
subspace2D_step_unchecked(st, delta, dx, ans) ==
  IF StepBranch(st, delta) = 1
  THEN [status |-> GSL_SUCCESS, dx |-> GaussNewtonStep(st), state |-> st,
        poly |-> FALSE, mini |-> -1, diag |-> FALSE]
  ELSE IF StepBranch(st, delta) = 2
  THEN [status |-> GSL_SUCCESS, dx |-> BoundaryDescentStep(st, delta), state |-> st,
        poly |-> FALSE, mini |-> -1, diag |-> FALSE]
  ELSE StepSelected(st, dx, ans.z, SelectRoot(ans.z, st))

(* subspace2D_step on workspace st, radius delta and the caller's vector   *)
(* dx, where ans is what the root finder answers if it is called: the      *)
(* status returned, dx and the workspace afterwards, whether the root      *)
(* finder was called, the root selected and whether the diagnostic was     *)
(* printed.                                                                *)
subspace2D_step(st, delta, dx, ans) ==
  IF StepBranch(st, delta) = 1
  THEN [status |-> GSL_SUCCESS, dx |-> GaussNewtonStep(st), state |-> st,
        poly |-> FALSE, mini |-> -1, diag |-> FALSE]
  ELSE IF StepBranch(st, delta) = 2
  THEN [status |-> GSL_SUCCESS, dx |-> BoundaryDescentStep(st, delta), state |-> st,
        poly |-> FALSE, mini |-> -1, diag |-> FALSE]
  ELSE IF ans.status # GSL_SUCCESS
  THEN [status |-> ans.status, dx |-> dx, state |-> st, poly |-> TRUE, mini |-> -1,
        diag |-> FALSE]
  ELSE StepSelected(st, dx, ans.z, SelectRoot(ans.z, st))

----------------------------------------------------------------------------
(* subspace2D_preduction                                                   *)

(* quadratic_preduction: pred = -(f.(J dx) + 1/2 |J dx|^2), with J dx left *)
(* in the work vector                                                      *)
PreductionAlong(f, Jdx) ==
  [pred |-> RNeg(RAdd(Dot(f, Jdx), RMul(<<1, 2>>, Dot(Jdx, Jdx)))),
   work |-> Jdx]

quadratic_preduction(f, J, dx) == PreductionAlong(f, MatVec(J, dx))

PreductionResult(st, q) ==
  [status |-> GSL_SUCCESS, pred |-> q.pred, state |-> [st EXCEPT !.workn = q.work]]

subspace2D_preduction(st, tst, dx) ==
  PreductionResult(st, quadratic_preduction(tst.f, tst.J, dx))

----------------------------------------------------------------------------
(* gsl_combination: n, k and the k indices data[0..k-1]                    *)

GSL_FAILURE == -1

(* Largest n and k of the combinations followed *)
MaxN == 4

MaxK == 3

(* A size_t is held by its representative nearest zero: a negative v       *)
(* stands for 2^64 + v, the value an unsigned subtraction below zero wraps *)
(* to.  Equality is equality of representatives; a < b on size_t:          *)
ULt(a, b) ==
  IF a >= 0 /\ b >= 0 THEN a < b
  ELSE IF a >= 0 THEN TRUE
  ELSE IF b >= 0 THEN FALSE
  ELSE a < b

(* data[i] of the source is data[i + 1] here *)

(* gsl_combination_valid: the inner loop over j < i, from j on; the        *)
(* message of the error raised, or "" for none                             *)
RECURSIVE ValidInner(_, _, _)
ValidInner(data, i, j) ==
  IF j >= i THEN ""
  ELSE IF data[i + 1] = data[j + 1] THEN "duplicate combination index"
  ELSE IF ULt(data[j + 1], data[i + 1]) THEN "combination index no in increasing order"
  ELSE ValidInner(data, i, j + 1)

(* The outer loop over i < k, from i on *)
RECURSIVE ValidOuter(_, _, _, _)
ValidOuter(data, cn, ck, i) ==
  IF i >= ck THEN ""
  ELSE IF ~ULt(data[i + 1], cn) THEN "combination index outside range"
  ELSE IF ValidInner(data, i, 0) # "" THEN ValidInner(data, i, 0)
  ELSE ValidOuter(data, cn, ck, i + 1)

(* The error gsl_combination_valid raises on c, "" for none *)
ValidError(c) ==
  IF c.k > c.n THEN "combination has k greater than n"
  ELSE ValidOuter(c.data, c.n, c.k, 0)

(* A check that raises no error is a success *)
ValidStatus(msg) == IF msg = "" THEN GSL_SUCCESS ELSE GSL_FAILURE

gsl_combination_valid(c) ==
  [status |-> ValidStatus(ValidError(c)), error |-> ValidError(c), data |-> c.data]

(* gsl_combination_next: the scan down from i while data[i] is as large as *)
(* it can be at its place                                                  *)
RECURSIVE NextScan(_, _, _, _)
NextScan(data, cn, ck, i) ==
  IF i > 0 /\ data[i + 1] = cn - ck + i THEN NextScan(data, cn, ck, i - 1) ELSE i

(* data[i]++, then every later index one more than the one before it *)
NextFill(data, ck, i) ==
  [j \in 1..ck |-> IF j - 1 < i THEN data[j] ELSE data[i + 1] + 1 + (j - 1 - i)]

(* A next that stops one place early and never moves the lowest index *)
NextAtSkippingFirst(c, i) ==
  IF i <= 1
  THEN [status |-> GSL_FAILURE, error |-> "", data |-> c.data]
  ELSE [status |-> GSL_SUCCESS, error |-> "", data |-> NextFill(c.data, c.k, i)]

(* The end of next, with i the place the scan stopped at *)
NextAt(c, i) ==
  IF i = 0 /\ c.data[1] = c.n - c.k
  THEN [status |-> GSL_FAILURE, error |-> "", data |-> c.data]
  ELSE [status |-> GSL_SUCCESS, error |-> "", data |-> NextFill(c.data, c.k, i)]

gsl_combination_next(c) ==
  IF c.k = 0 THEN [status |-> GSL_FAILURE, error |-> "", data |-> c.data]
  ELSE NextAt(c, NextScan(c.data, c.n, c.k, c.k - 1))

(* gsl_combination_prev: the scan down from i while data[i] follows        *)
(* data[i-1] immediately                                                   *)
RECURSIVE PrevScan(_, _)
PrevScan(data, i) ==
  IF i > 0 /\ data[i + 1] = data[i] + 1 THEN PrevScan(data, i - 1) ELSE i

(* data[i]--, then every later index as large as it can be at its place *)
PrevFill(data, cn, ck, i) ==
  [j \in 1..ck |->
     IF j - 1 < i THEN data[j]
     ELSE IF j - 1 = i THEN data[j] - 1
     ELSE cn - ck + (j - 1)]

(* A prev that forgets to reset the indices after the one it lowers *)
PrevAtNoReset(c, i) ==
  IF i = 0 /\ c.data[1] = 0
  THEN [status |-> GSL_FAILURE, error |-> "", data |-> c.data]
  ELSE [status |-> GSL_SUCCESS, error |-> "",
        data |-> [c.data EXCEPT ![i + 1] = c.data[i + 1] - 1]]

(* The end of prev, with i the place the scan stopped at *)
PrevAt(c, i) ==
  IF i = 0 /\ c.data[1] = 0
  THEN [status |-> GSL_FAILURE, error |-> "", data |-> c.data]
  ELSE [status |-> GSL_SUCCESS, error |-> "", data |-> PrevFill(c.data, c.n, c.k, i)]

gsl_combination_prev(c) ==
  IF c.k = 0 THEN [status |-> GSL_FAILURE, error |-> "", data |-> c.data]
  ELSE PrevAt(c, PrevScan(c.data, c.k - 1))

(* The combinations a caller can hold: any n and k within the bounds, and  *)
(* any indices 0..n, stored through gsl_combination_data                   *)
Combinations ==
  UNION {{[n |-> cn, k |-> ck, data |-> d] : d \in [1..ck -> 0..cn]} :
           <<cn, ck>> \in (0..MaxN) \X (0..MaxK)}

(* The first combination {0, ..., k-1} *)
FirstData(ck) == [j \in 1..ck |-> j - 1]

----------------------------------------------------------------------------
(* The state machine: one workspace driven by its caller                   *)

VARIABLES
  state,   \* the subspace2D_state_t workspace
  ts,      \* the caller's trust state: f, J, g
  dx,      \* the caller's step vector, handed to step and preduction
  ready,   \* the last preloop call returned success
  call,    \* the last call: what was called, with what, and what it returned
  prov,    \* which fields of the workspace stem from the preloop call that
           \* last stored rank, and whether preloop was called at all
  comb,    \* the gsl_combination c
  cres,    \* the last call on c: what was called, on which indices, its result
  trail    \* the combinations visited by next since the first one, if c
           \* started there and only next was called; else empty

vars == <<state, ts, dx, ready, call, prov, comb, cres, trail>>

svars == <<state, ts, dx, ready, call, prov>>

cvars == <<comb, cres, trail>>

(* No call on c yet *)
NoCombCall == [op |-> "none", status |-> GSL_SUCCESS, error |-> "", before |-> <<>>]

(* The combination is not in use *)
CombIdle ==
  /\ comb = [n |-> 0, k |-> 0, data |-> <<>>]
  /\ cres = NoCombCall
  /\ trail = <<>>

(* The answer slot of a call that does not reach the root finder *)
NoAnswer == [status |-> GSL_SUCCESS, z |-> [k \in 1..4 |-> ComplexSlot(k)]]

NoSolver == [init |-> GSL_SUCCESS, presolve |-> GSL_SUCCESS, solve |-> GSL_SUCCESS,
             wrote |-> FALSE]

(* The fields of the workspace a preloop call writes that returns status   *)
(* with rank rk in the workspace, the solver having answered o             *)
PreloopWrites(status, o, rk) ==
  IF status # GSL_SUCCESS
  THEN (IF o.wrote THEN {"dx_gn"} ELSE {})
  ELSE {"dx_gn", "workn", "dx_sd", "norm_gn", "norm_sd", "W", "tau", "rank"}
         \cup (IF rk = 2
               THEN {"workp", "subg", "J", "subB", "trB", "detB", "normg", "term0", "term1"}
               ELSE {})

(* The fields that stem from the call that last stored rank, after a       *)
(* preloop call that wrote the fields in writes                            *)
ProvAfterPreloop(pv, writes) ==
  [synced   |-> IF "rank" \in writes THEN writes ELSE pv.synced \ writes,
   preloops |-> TRUE]

(* Nothing of the workspace stems from a preloop call yet *)
NoProv == [synced |-> {}, preloops |-> FALSE]

(* A call that is no step *)
OtherCall(op, status, solver, pr) ==
  [op |-> op, status |-> status, delta |-> Zero, branch |-> 0, poly |-> FALSE,
   mini |-> -1, diag |-> FALSE, ans |-> NoAnswer, solver |-> solver,
   log |-> SolverCalls(solver), reads |-> {}, pred |-> pr, coef |-> <<>>]

(* A step with radius delta that ended as r *)
StepRecord(st, delta, ans, r) ==
  [op |-> "step", status |-> r.status, delta |-> delta,
   branch |-> StepBranch(st, delta), poly |-> r.poly, mini |-> r.mini,
   diag |-> r.diag, ans |-> ans, solver |-> NoSolver, log |-> <<>>,
   reads |-> StepReads(st, delta, ans), pred |-> Zero,
   coef |-> IF StepBranch(st, delta) = 3 THEN QuarticCoefficients(st, delta) ELSE <<>>]

Init ==
  /\ \E h \in HeapFills :
       /\ state = subspace2D_alloc(h)
       /\ dx = HeapVector(h)
  /\ ts = TrustState(1)
  /\ ready = FALSE
  /\ call = [OtherCall("alloc", GSL_SUCCESS, NoSolver, Zero) EXCEPT !.log = <<>>]
  /\ prov = NoProv
  /\ CombIdle

(* The caller stores the problem of a new outer iteration in the trust     *)
(* state and calls preloop; the solver answers o                           *)
Preloop(k, o) ==
  \E r \in subspace2D_preloop(state, TrustState(k), o) :
    /\ ts' = TrustState(k)
    /\ state' = r.state
    /\ ready' = (r.status = GSL_SUCCESS)
    /\ call' = OtherCall("preloop", r.status, o, Zero)
    /\ prov' = ProvAfterPreloop(prov, PreloopWrites(r.status, o, r.state.rank))
    /\ UNCHANGED <<dx, cvars>>

(* What the root finder can answer to a step with radius delta: nothing if *)
(* it is not called, else any of its answers                               *)
StepAnswers(st, delta) ==
  IF StepBranch(st, delta) # 3 THEN {NoAnswer}
  ELSE PolyAnswers(QuarticCoefficients(st, delta))

(* The caller tries radius delta *)
Step(delta, ans) ==
  \E r \in {subspace2D_step(state, delta, dx, ans)} :
    /\ state' = r.state
    /\ dx' = r.dx
    /\ call' = StepRecord(state, delta, ans, r)
    /\ UNCHANGED <<ts, ready, prov, cvars>>

(* The caller asks for the predicted reduction of the dx of the step that  *)
(* has just returned success                                               *)
Preduction ==
  \E r \in {subspace2D_preduction(state, ts, dx)} :
    /\ call.op = "step"
    /\ call.status = GSL_SUCCESS
    /\ state' = r.state
    /\ call' = [OtherCall("preduction", r.status, NoSolver, r.pred) EXCEPT !.log = <<>>]
    /\ prov' = [prov EXCEPT !.synced = @ \ {"workn"}]
    /\ UNCHANGED <<ts, dx, ready, cvars>>

(* Any problem, any behaviour of the solver *)
PreloopCall ==
  \E k \in 1..NumProblems :
    \E o \in SolverOutcomes(TrustState(k)) :
      Preloop(k, o)

(* Any radius, any behaviour of the root finder *)
StepCall ==
  \E delta \in Deltas :
    \E ans \in StepAnswers(state, delta) :
      Step(delta, ans)

PreductionCall == Preduction

Next == PreloopCall \/ StepCall \/ PreductionCall

Spec == Init /\ [][Next]_vars

----------------------------------------------------------------------------
(* The state machine of one combination driven by its caller               *)

(* The workspace is not in use *)
SubspaceIdle ==
  /\ state = subspace2D_alloc(Zero)
  /\ dx = HeapVector(Zero)
  /\ ts = TrustState(1)
  /\ ready = FALSE
  /\ call = [OtherCall("alloc", GSL_SUCCESS, NoSolver, Zero) EXCEPT !.log = <<>>]
  /\ prov = NoProv

CombInit ==
  /\ SubspaceIdle
  /\ comb \in Combinations
  /\ cres = NoCombCall
  /\ trail = IF comb.k <= comb.n /\ comb.data = FirstData(comb.k)
             THEN <<comb.data>> ELSE <<>>

(* next and prev are followed while every index is one a caller stored *)
Followed(c) == \A j \in 1..c.k : c.data[j] \in 0..MaxN

(* The record of a call that returned r *)
CombCall(op, r) ==
  [op |-> op, status |-> r.status, error |-> r.error, before |-> comb.data]

CombinationNext ==
  \E r \in {gsl_combination_next(comb)} :
    /\ Followed(comb)
    /\ comb' = [comb EXCEPT !.data = r.data]
    /\ cres' = CombCall("next", r)
    /\ trail' = IF trail # <<>> /\ r.status = GSL_SUCCESS
                THEN Append(trail, r.data) ELSE trail
    /\ UNCHANGED svars

CombinationPrev ==
  \E r \in {gsl_combination_prev(comb)} :
    /\ Followed(comb)
    /\ comb' = [comb EXCEPT !.data = r.data]
    /\ cres' = CombCall("prev", r)
    /\ trail' = <<>>
    /\ UNCHANGED svars

CombinationValid ==
  \E r \in {gsl_combination_valid(comb)} :
    /\ cres' = CombCall("valid", r)
    /\ UNCHANGED <<comb, trail, svars>>

CombNext == CombinationNext \/ CombinationPrev \/ CombinationValid

SpecComb == CombInit /\ [][CombNext]_vars

----------------------------------------------------------------------------
(* Properties of subspace2D_step                                           *)

(* C1: whatever the workspace holds and whatever its rank, a step with     *)
(* norm_gn <= delta returns success with dx equal to dx_gn, element for    *)
(* element, and does not call the root finder.                             *)
C1_GaussNewtonInside ==
  [][(call'.op = "step" /\ RLe(state.norm_gn, call'.delta))
       => /\ call'.status = GSL_SUCCESS
          /\ dx' = state.dx_gn
          /\ ~call'.poly]_vars

(* A step of a rank-2 workspace with norm_gn = delta has returned dx_gn *)
C1_Witness ==
  /\ call.op = "step"
  /\ call.status = GSL_SUCCESS
  /\ state.rank = 2
  /\ state.norm_gn = call.delta
  /\ dx = state.dx_gn
  /\ dx # HeapVector(R(9))

(* The fields of the rank-2 block *)
C2_Block == {"subg", "subB", "trB", "detB", "normg", "term0", "term1"}

(* The workspace with every field of the rank-2 block overwritten *)
C2_Scrambled(st) ==
  [st EXCEPT !.subg = <<NaN, NaN>>, !.subB = << <<NaN>>, <<NaN, NaN>> >>,
             !.trB = NaN, !.detB = NaN, !.normg = NaN, !.term0 = NaN, !.term1 = NaN]

(* C2: the branches of step exclude each other and are tried in order: dx  *)
(* is dx_gn whenever norm_gn <= delta, whatever the rank; the root finder  *)
(* is called exactly when norm_gn <= delta does not hold and the rank is   *)
(* 2; and whenever norm_gn > delta and rank < 2 step returns               *)
(* dx = dx_sd * (delta / norm_sd), calls no root finder and reads none of  *)
(* subg, subB, trB, detB, normg, term0, term1: overwriting them changes    *)
(* nothing of what it returns.                                             *)
C2_BoundaryDescent ==
  [][call'.op = "step"
       => /\ RLe(state.norm_gn, call'.delta) => (dx' = state.dx_gn /\ ~call'.poly)
          /\ call'.poly <=> (~RLe(state.norm_gn, call'.delta) /\ state.rank >= 2)
          /\ (RGt(state.norm_gn, call'.delta) /\ state.rank < 2)
               => /\ call'.status = GSL_SUCCESS
                  /\ dx' = Scale(state.dx_sd, RDiv(call'.delta, state.norm_sd))
                  /\ ~call'.poly
                  /\ call'.reads \cap C2_Block = {}
                  /\ subspace2D_step(C2_Scrambled(state), call'.delta, dx,
                                     call'.ans).dx = dx']_vars

(* A rank-1 workspace that still holds the rank-2 block of an earlier      *)
(* iteration has stepped to the boundary along dx_sd                       *)
C2_Witness ==
  /\ call.op = "step"
  /\ RGt(state.norm_gn, call.delta)
  /\ state.rank = 1
  /\ state.detB # Zero
  /\ state.norm_sd # One
  /\ dx = Scale(state.dx_sd, RDiv(call.delta, state.norm_sd))

(* The roots of z[] with |imaginary part| < epsilon *)
RealCandidates(z) == {k \in 1..4 : RLt(RAbs(z[k][2]), GSL_DBL_EPSILON)}

(* The reduced objective at x = ReducedSolve(lambda) *)
C3_Cost(st, lambda) == subspace2D_objective(subspace2D_solution(lambda, st), st)

(* C3: in branch 3 (norm_gn > delta, rank 2), when the root finder has     *)
(* succeeded and some root has |imaginary part| < epsilon, the root used   *)
(* to build dx is one of the roots with |imaginary part| < epsilon and its *)
(* reduced objective is <= that of every such root.                        *)
C3_MinimalRoot ==
  [][(/\ call'.op = "step"
      /\ RGt(state.norm_gn, call'.delta)
      /\ state.rank = 2
      /\ call'.ans.status = GSL_SUCCESS
      /\ RealCandidates(call'.ans.z) # {})
       => \E m \in RealCandidates(call'.ans.z) :
            /\ call'.mini = m - 1
            /\ dx' = Reconstruct(state, subspace2D_solution(call'.ans.z[m][1], state))
            /\ \A k \in RealCandidates(call'.ans.z) :
                 RLe(C3_Cost(state, call'.ans.z[m][1]),
                     C3_Cost(state, call'.ans.z[k][1]))]_vars

(* A branch-3 step has chosen between two real roots of different cost,    *)
(* the cheaper one reported after the dearer one                           *)
C3_Witness ==
  /\ call.op = "step"
  /\ call.branch = 3
  /\ call.status = GSL_SUCCESS
  /\ Cardinality(RealCandidates(call.ans.z)) = 2
  /\ call.mini = 3
  /\ RLt(C3_Cost(state, call.ans.z[4][1]), C3_Cost(state, call.ans.z[3][1]))
  /\ dx = Reconstruct(state, subspace2D_solution(call.ans.z[4][1], state))

(* The step is taken in branch 3 *)
FullBranch(st, delta) == ~RLe(st.norm_gn, delta) /\ st.rank >= 2

(* |v| = r, without taking the root *)
NormIs(v, r) == RLe(Zero, r) /\ Dot(v, v) = RMul(r, r)

(* C4: after a successful preloop, a step with delta > 0 that returns      *)
(* success returns a dx inside the trust region: |dx| = norm_gn <= delta   *)
(* in branch 1, |dx| = delta in branches 2 and 3.                          *)
C4_InsideTrustRegion ==
  [][(ready /\ call'.op = "step" /\ call'.status = GSL_SUCCESS
        /\ RGt(call'.delta, Zero))
       => IF RLe(state.norm_gn, call'.delta)
          THEN NormIs(dx', state.norm_gn)
          ELSE NormIs(dx', call'.delta)]_vars

(* After a successful preloop a branch-3 step has returned success with a  *)
(* dx longer than delta                                                    *)
C4_Witness ==
  /\ ready
  /\ call.op = "step"
  /\ call.status = GSL_SUCCESS
  /\ FullBranch(state, call.delta)
  /\ RGt(Dot(dx, dx), RMul(call.delta, call.delta))

(* C5: a preloop on a problem with |J g| = 0 does not return success: it   *)
(* signals a failure instead of dividing by zero.                          *)
C5_DegenerateSignalled ==
  (call.op = "preloop" /\ MatVec(ts.J, ts.g) = <<Zero, Zero>>)
    => call.status # GSL_SUCCESS

(* A preloop with g = 0 has returned success and stored the outcome of a   *)
(* division by zero in dx_sd and norm_sd                                   *)
C5_Witness ==
  /\ call.op = "preloop"
  /\ ts.g = <<Zero, Zero>>
  /\ call.status = GSL_SUCCESS
  /\ state.dx_sd = <<NaN, NaN>>
  /\ state.norm_sd = NaN

(* C6: in branch 3, when the root finder returns a failure status, step    *)
(* returns that status and leaves dx as the caller passed it.              *)
C6_RootFinderFailure ==
  [][(call'.op = "step" /\ FullBranch(state, call'.delta)
        /\ call'.ans.status # GSL_SUCCESS)
       => /\ call'.status = call'.ans.status
          /\ dx' = dx]_vars

(* A step whose root finder failed has returned the failure, and dx still  *)
(* holds the Gauss-Newton step an earlier call with a larger radius left   *)
C6_Witness ==
  /\ call.op = "step"
  /\ FullBranch(state, call.delta)
  /\ call.ans.status = GSL_EFAILED
  /\ call.status = GSL_EFAILED
  /\ dx = state.dx_gn

(* C7: in branch 3, when the root finder succeeds and no root has          *)
(* |imaginary part| < epsilon, step prints its diagnostic, leaves dx as    *)
(* the caller passed it and returns success.                               *)
C7_NoRealRoot ==
  [][(call'.op = "step" /\ FullBranch(state, call'.delta)
        /\ call'.ans.status = GSL_SUCCESS
        /\ RealCandidates(call'.ans.z) = {})
       => /\ call'.status = GSL_SUCCESS
          /\ call'.diag
          /\ dx' = dx]_vars

(* A step that found no real root has returned success, and dx still holds *)
(* the step to the boundary that an earlier call with another radius left  *)
C7_Witness ==
  /\ call.op = "step"
  /\ FullBranch(state, call.delta)
  /\ call.ans.status = GSL_SUCCESS
  /\ RealCandidates(call.ans.z) = {}
  /\ call.status = GSL_SUCCESS
  /\ call.diag
  /\ NormIs(dx, DeltaTable[2])
  /\ call.delta = DeltaTable[1]

----------------------------------------------------------------------------
(* Properties of subspace2D_preloop                                        *)

(* The calls of a complete solver protocol *)
C8_Protocol == << <<"init">>, <<"presolve", Zero>>, <<"solve">> >>

(* What preloop computes after the solver calls *)
C8_Computed ==
  {"dx_sd", "norm_gn", "norm_sd", "W", "rank", "subg", "subB", "trB", "detB",
   "normg", "term0", "term1"}

(* Preloop has stopped at solver call number k, which returned status e *)
C8_StoppedAt(k, e) ==
  /\ call'.status = e
  /\ Len(call'.log) = k
  /\ \A f \in C8_Computed : state'[f] = state[f]

(* C8: preloop calls init, presolve with damping 0 and solve in this       *)
(* order, each at most once; when one of them returns a non-zero status    *)
(* preloop returns that status, calls the solver no further and writes     *)
(* none of dx_sd, norm_gn, norm_sd, W, rank, subg, subB, trB, detB, normg, *)
(* term0, term1.                                                           *)
C8_SolverProtocol ==
  [][call'.op = "preloop"
       => /\ Len(call'.log) \in 1..3
          /\ call'.log = SubSeq(C8_Protocol, 1, Len(call'.log))
          /\ call'.solver.init # GSL_SUCCESS => C8_StoppedAt(1, call'.solver.init)
          /\ (call'.solver.init = GSL_SUCCESS /\ call'.solver.presolve # GSL_SUCCESS)
               => C8_StoppedAt(2, call'.solver.presolve)
          /\ (call'.solver.init = GSL_SUCCESS /\ call'.solver.presolve = GSL_SUCCESS
                /\ call'.solver.solve # GSL_SUCCESS)
               => C8_StoppedAt(3, call'.solver.solve)
          /\ (call'.solver.init = GSL_SUCCESS /\ call'.solver.presolve = GSL_SUCCESS
                /\ call'.solver.solve = GSL_SUCCESS)
               => (call'.status = GSL_SUCCESS /\ Len(call'.log) = 3)]_vars

(* A preloop whose solve failed after writing dx_gn has returned the       *)
(* failure; the workspace keeps the rank-2 data of the iteration before    *)
C8_Witness ==
  /\ call.op = "preloop"
  /\ call.solver.solve = GSL_ESING
  /\ call.status = GSL_ESING
  /\ Len(call.log) = 3
  /\ state.dx_gn = PartialSolve(ts.J, ts.f)
  /\ state.rank = 2
  /\ state.norm_gn # Zero

(* What C9 lists *)
C9_Kept ==
  {"dx_gn", "dx_sd", "norm_gn", "norm_sd", "rank", "W", "tau", "subg", "subB",
   "trB", "detB", "normg", "term0", "term1"}

(* C9: after a successful preloop, step and predicted reduction leave      *)
(* dx_gn, dx_sd, norm_gn, norm_sd, rank, W, tau, subg, subB, trB, detB,    *)
(* normg, term0 and term1 unchanged, and the dx a successful step returns  *)
(* for its delta does not depend on the calls before it: it is the dx the  *)
(* same step returns when a step with a large radius, which leaves dx_gn   *)
(* in the caller's vector, came just before.                               *)
C9_RetryIndependence ==
  [][(ready /\ call'.op \in {"step", "preduction"})
       => /\ \A f \in C9_Kept : state'[f] = state[f]
          /\ (call'.op = "step" /\ call'.status = GSL_SUCCESS)
               => dx' = subspace2D_step(state, call'.delta, GaussNewtonStep(state),
                                        call'.ans).dx]_vars

(* After a successful preloop, a step with the first radius has returned   *)
(* the dx of a step with the second radius that came before                *)
C9_Witness ==
  /\ ready
  /\ call.op = "step"
  /\ call.status = GSL_SUCCESS
  /\ call.delta = DeltaTable[1]
  /\ FullBranch(state, call.delta)
  /\ NormIs(dx, DeltaTable[2])
  /\ dx # state.dx_gn

(* The solver's answer to a problem it can solve *)
C10_Solved(tst) == CHOOSE o \in SolverOutcomes(tst) : SolverResult(o) = GSL_SUCCESS

(* The workspaces a preloop on tst leaves in a workspace just allocated *)
C10_Fresh(tst) ==
  {r.state : r \in subspace2D_preloop(subspace2D_alloc(Zero), tst, C10_Solved(tst))}

(* C10: after a successful preloop on (f, J, g), the dx a successful step  *)
(* returns for delta depends on (f, J, g, delta) only: it is the dx the    *)
(* same step returns on a workspace allocated, given one preloop on        *)
(* (f, J, g) and stepped for the first time.                               *)
C10_HistoryIndependence ==
  [][(ready /\ call'.op = "step" /\ call'.status = GSL_SUCCESS)
       => \E s \in C10_Fresh(ts) :
            /\ s.rank = state.rank
            /\ dx' = subspace2D_step(s, call'.delta, HeapVector(Zero), call'.ans).dx]_vars

(* After a rank-1 and then a rank-2 iteration, a successful step has       *)
(* returned what the caller's vector held before the call                  *)
C10_Witness ==
  /\ ready
  /\ call.op = "step"
  /\ call.status = GSL_SUCCESS
  /\ call.diag
  /\ state.rank = 2
  /\ dx # HeapVector(Zero)
  /\ RGt(Dot(dx, dx), RMul(call.delta, call.delta))
  /\ state.dx_gn # dx

----------------------------------------------------------------------------
(* Rank of the subspace                                                    *)

(* u and v are finite and linearly dependent *)
Parallel(u, v) == RSub(RMul(u[1], v[2]), RMul(u[2], v[1])) = Zero

----------------------------------------------------------------------------
(* The quartic in the Lagrange multiplier                                  *)

(* term0 and term1 as functions of the entries of subB and subg *)
C12_Term0(B00, B10, B11, g0, g1) ==
  RAdd(RSub(RMul(RAdd(Square(B10), Square(B11)), Square(g0)),
            RMul(RMul(RMul(R(2), B10), RAdd(B00, B11)), RMul(g0, g1))),
       RMul(RAdd(Square(B00), Square(B10)), Square(g1)))

C12_Term1(B00, B10, B11, g0, g1) ==
  RAdd(RMul(B11, Square(g0)),
       RMul(g1, RSub(RMul(B00, g1), RMul(RMul(R(2), B10), g0))))

(* The five coefficients, lowest degree first, from trB, detB, term0,      *)
(* term1, normg^2 and delta^2                                              *)
C12_Quartic(trB, detB, term0, term1, normgsq, dsq) ==
  << RSub(Square(detB), RDiv(term0, dsq)),
     RSub(RMul(RMul(R(2), detB), trB), RDiv(RMul(R(2), term1), dsq)),
     RSub(RAdd(Square(trB), RMul(R(2), detB)), RDiv(normgsq, dsq)),
     RMul(R(2), trB),
     One >>

(* The coefficients the claim gives for the subB and subg of workspace st *)
C12_Expected(st, delta) ==
  C12_Quartic(RAdd(st.subB[1][1], st.subB[2][2]),
              RSub(RMul(st.subB[1][1], st.subB[2][2]), Square(st.subB[2][1])),
              C12_Term0(st.subB[1][1], st.subB[2][1], st.subB[2][2], st.subg[1], st.subg[2]),
              C12_Term1(st.subB[1][1], st.subB[2][1], st.subB[2][2], st.subg[1], st.subg[2]),
              Dot(st.subg, st.subg),
              Square(delta))

(* C12: in branch 3 the five coefficients handed to the root finder are,   *)
(* lowest degree first, a0 = detB^2 - term0/delta^2,                       *)
(* a1 = 2 detB trB - 2 term1/delta^2, a2 = trB^2 + 2 detB - normg^2/delta^2, *)
(* a3 = 2 trB, a4 = 1, with trB, detB, term0, term1 and normg the values   *)
(* the claim's formulas give for the subB and subg of the workspace; and a *)
(* successful preloop of rank 2 stores exactly these values.               *)
C12_QuarticCoefficients ==
  [][/\ (call'.op = "step" /\ FullBranch(state, call'.delta))
          => /\ call'.poly
             /\ Len(call'.coef) = 5
             /\ call'.coef = C12_Expected(state, call'.delta)
     /\ (call'.op = "preloop" /\ call'.status = GSL_SUCCESS /\ state'.rank = 2)
          => /\ state'.trB = RAdd(state'.subB[1][1], state'.subB[2][2])
             /\ state'.detB = RSub(RMul(state'.subB[1][1], state'.subB[2][2]),
                                   Square(state'.subB[2][1]))
             /\ state'.term0 = C12_Term0(state'.subB[1][1], state'.subB[2][1],
                                         state'.subB[2][2], state'.subg[1], state'.subg[2])
             /\ state'.term1 = C12_Term1(state'.subB[1][1], state'.subB[2][1],
                                         state'.subB[2][2], state'.subg[1], state'.subg[2])
             /\ Square(state'.normg) = Dot(state'.subg, state'.subg)]_vars

(* A branch-3 step has handed the root finder a quartic with non-zero      *)
(* coefficients of every degree, and a root was selected                   *)
C12_Witness ==
  /\ call.op = "step"
  /\ call.branch = 3
  /\ call.mini >= 0
  /\ Len(call.coef) = 5
  /\ \A k \in 1..5 : call.coef[k] # Zero
  /\ call.coef[5] = One
  /\ state.subB[2][1] # Zero
  /\ state.subg[1] # Zero
  /\ state.subg[2] # Zero

----------------------------------------------------------------------------
(* Properties of gsl_combination                                           *)

(* c holds k strictly increasing indices below n *)
CombValid(c) ==
  /\ c.k <= c.n
  /\ \A j \in 1..c.k : c.data[j] \in 0..(c.n - 1)
  /\ \A j \in 1..(c.k - 1) : c.data[j] < c.data[j + 1]

(* The k-subsets of {0..n-1}, each as its increasing sequence of indices *)
KSubsets(cn, ck) ==
  {d \in [1..ck -> 0..(cn - 1)] : \A j \in 1..(ck - 1) : d[j] < d[j + 1]}

(* a comes before b in lexicographic order *)
LexLt(a, b) ==
  \E i \in 1..Len(a) : a[i] < b[i] /\ \A j \in 1..(i - 1) : a[j] = b[j]

(* The last combination {n-k, ..., n-1} *)
LastData(cn, ck) == [j \in 1..ck |-> cn - ck + j - 1]

(* b is the immediate successor of a among the k-subsets of {0..n-1} *)
Successor(a, b, cn, ck) ==
  /\ b \in KSubsets(cn, ck)
  /\ LexLt(a, b)
  /\ ~\E d \in KSubsets(cn, ck) : LexLt(a, d) /\ LexLt(d, b)

(* The trail has visited each of its combinations once *)
C13_Once(t) == \A i, j \in 1..Len(t) : t[i] = t[j] => i = j

(* C13: on a combination of k strictly increasing indices below n, next    *)
(* returns GSL_FAILURE and leaves c unchanged exactly when k = 0 or c is   *)
(* the last combination; otherwise it returns GSL_SUCCESS and replaces c   *)
(* with its immediate successor in lexicographic order.  Started at        *)
(* {0, ..., k-1}, the calls up to the first GSL_FAILURE visit every        *)
(* k-subset of {0..n-1} exactly once.                                      *)
C13_NextEnumerates ==
  [][(cres'.op = "next" /\ CombValid(comb))
       => /\ IF comb.k = 0 \/ comb.data = LastData(comb.n, comb.k)
             THEN cres'.status = GSL_FAILURE /\ comb'.data = comb.data
             ELSE /\ cres'.status = GSL_SUCCESS
                  /\ Successor(comb.data, comb'.data, comb.n, comb.k)
          /\ trail # <<>>
               => /\ trail'[1] = FirstData(comb.k)
                  /\ trail'[Len(trail')] = comb'.data
                  /\ C13_Once(trail')
                  /\ cres'.status = GSL_FAILURE
                       => /\ {trail'[i] : i \in 1..Len(trail')} = KSubsets(comb.n, comb.k)
                          /\ Len(trail') = Cardinality(KSubsets(comb.n, comb.k))]_vars

(* Started at {0,1}, next has visited the six 2-subsets of {0..3} and then *)
(* returned GSL_FAILURE                                                    *)
C13_Witness ==
  /\ cres.op = "next"
  /\ cres.status = GSL_FAILURE
  /\ comb.n = 4
  /\ comb.k = 2
  /\ Len(trail) = 6
  /\ trail[1] = <<0, 1>>
  /\ trail[6] = <<2, 3>>
  /\ comb.data = <<2, 3>>

(* C14: gsl_combination_valid returns GSL_SUCCESS exactly for the          *)
(* combinations with k <= n whose k indices are all below n, pairwise      *)
(* distinct and in increasing order, and GSL_FAILURE for every other one;  *)
(* so it accepts whatever next or prev make of a valid combination.        *)
C14_ValidExactly ==
  cres.op = "valid" => (cres.status = GSL_SUCCESS <=> CombValid(comb))

(* valid has returned GSL_FAILURE, for indices not in increasing order, on *)
(* the increasing combination that next made of {0, ..., k-1}              *)
C14_Witness ==
  /\ cres.op = "valid"
  /\ cres.status = GSL_FAILURE
  /\ cres.error = "combination index no in increasing order"
  /\ CombValid(comb)
  /\ Len(trail) = 2
  /\ comb.data = trail[2]

----------------------------------------------------------------------------
(* Consistency of the workspace step works on                              *)

(* r is what the norm routine gives for v: |v|, or NaN for a v with NaN *)
C15_IsNorm(v, r) == IF IsNaN(r) THEN IsNaN(Dot(v, v)) ELSE NormIs(v, r)

C16_Block == {"subg", "subB", "trB", "detB", "normg", "term0", "term1", "W", "tau"}

(* C16: whenever step reaches branch 3, subg, subB, trB, detB, normg,      *)
(* term0, term1, W and tau were written by the preloop call that last      *)
(* stored rank, and so was every field the step reads: none is unwritten   *)
(* or left from another preloop call.  A step before any preloop does not  *)
(* enter branch 3.                                                         *)
C16_BranchThreeInputs ==
  [][call'.op = "step"
       => /\ call'.branch = 3
               => /\ "rank" \in prov.synced
                  /\ C16_Block \subseteq prov.synced
                  /\ call'.reads \subseteq prov.synced
          /\ ~prov.preloops => call'.branch # 3]_vars

(* Branch 3 has run on the rank-2 data of a successful preloop after a     *)
(* later preloop failed, its solve having overwritten dx_gn                *)
C16_Witness ==
  /\ call.op = "step"
  /\ call.branch = 3
  /\ call.mini >= 0
  /\ ~ready
  /\ "dx_gn" \notin prov.synced
  /\ C16_Block \subseteq prov.synced
  /\ {"subB", "subg", "W", "tau"} \subseteq call.reads

(* C17: on strictly increasing combinations next and prev undo each other: *)
(* after a next that returned GSL_SUCCESS a prev returns GSL_SUCCESS and   *)
(* restores c, and after a prev that returned GSL_SUCCESS so does a next;  *)
(* prev returns GSL_FAILURE exactly on {0, ..., k-1} or k = 0 and then     *)
(* leaves c unchanged; neither modifies n or k.                            *)
C17_NextPrevInverse ==
  [][cres'.op \in {"next", "prev"}
       => /\ comb'.n = comb.n
          /\ comb'.k = comb.k
          /\ (cres'.op = "next" /\ CombValid(comb) /\ cres'.status = GSL_SUCCESS)
               => /\ gsl_combination_prev(comb').status = GSL_SUCCESS
                  /\ gsl_combination_prev(comb').data = comb.data
          /\ (cres'.op = "prev" /\ CombValid(comb))
               => IF comb.k = 0 \/ comb.data = FirstData(comb.k)
                  THEN cres'.status = GSL_FAILURE /\ comb'.data = comb.data
                  ELSE /\ cres'.status = GSL_SUCCESS
                       /\ CombValid(comb')
                       /\ gsl_combination_next(comb').status = GSL_SUCCESS
                       /\ gsl_combination_next(comb').data = comb.data]_vars

(* prev has taken {1,2} of {0..3} back to {0,3}, from where next leads to  *)
(* {1,2} again                                                             *)
C17_Witness ==
  /\ cres.op = "prev"
  /\ cres.status = GSL_SUCCESS
  /\ comb.n = 4
  /\ comb.k = 2
  /\ cres.before = <<1, 2>>
  /\ comb.data = <<0, 3>>
  /\ gsl_combination_next(comb).data = cres.before

====
